---- MODULE Spec2Model ----
(***************************************************************************)
(* Model of the catalyst-system orchestration layer:                       *)
(*   src/src/pkg/catalyst_system.py   class CatalystSystem                  *)
(*   src/src/pkg/database_utils.py    the four database writer functions    *)
(*                                                                         *)
(* Every public operation is one action that runs the whole handler.  The  *)
(* handlers are single-threaded and synchronous, so no other operation can *)
(* interleave with one.  The variable "last" records what the handler that *)
(* just ran was given, how it ended and the ordered events it produced.    *)
(*                                                                         *)
(* The record store is external (ase.db).  It is modelled as an append-only *)
(* sequence of rows whose write returns the next row id; a write that      *)
(* raises leaves the rows written before it in place.                      *)
(***************************************************************************)
EXTENDS Integers, Sequences, FiniteSets, TLC

\* ---------------------------------------------------------------- bounds
MaxSlabs == 2        \* slabs an enumeration returns
MaxCands == 2        \* candidates in one configuration's atoms_list
MaxRows == 4         \* rows the three stores hold together

\* The CatalystSystem objects of a run, one Bulk each.
Systems == {1, 2}

\* ------------------------------------------------------------ python values
\* db_id of an object on which no writer has assigned the attribute yet.
\* Reading it raises AttributeError (the only assignments are in
\* database_utils.py lines 7, 14 and 21).
NoId == 0
\* adslab_id of a row written without that key (relaxed = FALSE rows).
NoKey == 0 - 1

\* self.slabs: None, or a list of n slabs (slab j of system s is <<s, j>>).
NoneSlabs == [none |-> TRUE, n |-> 0]
SlabList(n) == [none |-> FALSE, n |-> n]
\* Python truthiness of self.slabs: None and [] are falsy.
Truthy(sl) == ~sl.none /\ sl.n > 0

\* self.adsorbate_slab_configs: the attribute is unassigned, or a list with
\* one configuration per slab; configuration c sits on slab c and holds an
\* atoms_list of "len" candidates.
NoConfigs == [set |-> FALSE, list |-> <<>>]

\* An event of a handler's run.
Ev(ev, cfg, idx, ok, id) == [ev |-> ev, cfg |-> cfg, idx |-> idx, ok |-> ok, id |-> id]

VARIABLES
    made,                    \* made[s]: the CatalystSystem s has been constructed
    slabs,                   \* slabs[s]: self.slabs
    adsorbate_slab_configs,  \* adsorbate_slab_configs[s]: self.adsorbate_slab_configs
    path,                    \* path[s]: self.path is not None
    calc,                    \* calc[s]: self.calc is not None
    bulk_db_id,              \* bulk_db_id[s]: self.bulk.db_id, NoId when unassigned
    slab_db_id,              \* slab_db_id[s][j]: slab.db_id, NoId when unassigned
    atoms_db_id,             \* atoms_db_id[s][j][i]: atom_obj.db_id of candidate i on slab j
    bulk_db,                 \* rows of the bulk store
    slab_db,                 \* rows of the slab store
    adslab_db,               \* rows of the adsorbate-slab store
    dirs,                    \* directories created: <<bulk_id, slab_id>>
    held,                    \* held[d]: how many times store d is currently acquired
    last                     \* the operation that just ran

vars == <<made, slabs, adsorbate_slab_configs, path, calc, bulk_db_id, slab_db_id,
          atoms_db_id, bulk_db, slab_db, adslab_db, dirs, held, last>>

Stores == {"bulk_db", "slab_db", "adslab_db"}

\* What a handler works on: the part of the state a handler can change, plus
\* its running outcome.  result = "ok" while nothing has been raised.
Machine ==
    [bulk_db_id |-> bulk_db_id, slab_db_id |-> slab_db_id, atoms_db_id |-> atoms_db_id,
     bulk_db |-> bulk_db, slab_db |-> slab_db, adslab_db |-> adslab_db,
     dirs |-> dirs, held |-> held,
     result |-> "ok", trace |-> <<>>, nwrites |-> 0, relaxed_adslabs |-> <<>>]

Ok(st) == st.result = "ok"
Raise(st, exc) == [st EXCEPT !.result = exc]
Log(st, e) == [st EXCEPT !.trace = Append(@, e)]

Last(op, sys, args, st) ==
    [op |-> op, sys |-> sys, args |-> args, note |-> "", result |-> st.result,
     trace |-> st.trace, rows0 |-> Len(adslab_db)]

Install(st) ==
    /\ bulk_db_id' = st.bulk_db_id
    /\ slab_db_id' = st.slab_db_id
    /\ atoms_db_id' = st.atoms_db_id
    /\ bulk_db' = st.bulk_db
    /\ slab_db' = st.slab_db
    /\ adslab_db' = st.adslab_db
    /\ dirs' = st.dirs
    /\ held' = st.held

WithinCapacity(st) ==
    Len(st.bulk_db) + Len(st.slab_db) + Len(st.adslab_db) <= MaxRows

\* ------------------------------------------------------------ record store
\* "with db as db:" acquires the store on entry ...
Enter(st, d, cfg) ==
    Log([st EXCEPT !.held[d] = @ + 1], Ev("enter", cfg, 0, TRUE, 0))

\* Exit as an explicit close after the loop: skipped when the loop raised.
ExitOnSuccess(st, d, cfg) ==
    IF Ok(st) THEN Log([st EXCEPT !.held[d] = @ - 1], Ev("exit", cfg, 0, TRUE, 0)) ELSE st

\* ... and releases it when the block is left, normally or by an exception.
Exit(st, d, cfg) ==
    Log([st EXCEPT !.held[d] = @ - 1], Ev("exit", cfg, 0, Ok(st), 0))

\* The store raises on the failAt-th db.write call of the running handler
\* (failAt = 0: the store never fails).
StoreFails(st, failAt) == st.nwrites + 1 = failAt

\* db.write appends the row and returns its id, the next row number.
NextId(rows) == Len(rows) + 1

\* ------------------------------------------------------- database_utils.py
\* write_bulks_to_db, the loop body for bulks[k..]: lines 5-7.
RECURSIVE BulksLoop(_, _, _)
BulksLoop(st, bulks, failAt) ==
    IF bulks = <<>> THEN st
    ELSE LET b == Head(bulks)
             id == NextId(st.bulk_db)
         IN IF StoreFails(st, failAt)
            THEN Raise(Log(st, Ev("write", 0, b, FALSE, 0)), "DbError")
            ELSE BulksLoop(
                   Log([st EXCEPT !.bulk_db = Append(@, [bulk |-> b]),
                                  !.bulk_db_id[b] = id,
                                  !.nwrites = @ + 1],
                       Ev("write", 0, b, TRUE, id)),
                   Tail(bulks), failAt)

write_bulks_to_db(st, bulks, failAt) ==
    Exit(BulksLoop(Enter(st, "bulk_db", 0), bulks, failAt), "bulk_db", 0)


\* SlabsInner tagging each slab with the id of the bulk written last.
RECURSIVE SlabsInnerLatestBulk(_, _, _, _, _)
SlabsInnerLatestBulk(st, s, j, n, failAt) ==
    IF j > n THEN st
    ELSE IF st.bulk_db_id[s] = NoId
         THEN Raise(st, "AttributeError")
    ELSE IF StoreFails(st, failAt)
         THEN Raise(Log(st, Ev("write", s, j, FALSE, 0)), "DbError")
    ELSE LET id == NextId(st.slab_db)
         IN SlabsInnerLatestBulk(
              Log([st EXCEPT !.slab_db = Append(@, [slab |-> <<s, j>>,
                                                    bulk_id |-> Len(st.bulk_db)]),
                             !.slab_db_id[s][j] = id,
                             !.nwrites = @ + 1],
                  Ev("write", s, j, TRUE, id)),
              s, j + 1, n, failAt)

\* write_slabs_to_db, the inner loop over one slab list: lines 12-14.
\* Slab j of system s; n is the length of the list.
RECURSIVE SlabsInner(_, _, _, _, _)
SlabsInner(st, s, j, n, failAt) ==
    IF j > n THEN st
    ELSE IF st.bulk_db_id[s] = NoId
         THEN Raise(st, "AttributeError")       \* slab.bulk.db_id was never assigned
    ELSE IF StoreFails(st, failAt)
         THEN Raise(Log(st, Ev("write", s, j, FALSE, 0)), "DbError")
    ELSE LET id == NextId(st.slab_db)
         IN SlabsInner(
              Log([st EXCEPT !.slab_db = Append(@, [slab |-> <<s, j>>,
                                                    bulk_id |-> st.bulk_db_id[s]]),
                             !.slab_db_id[s][j] = id,
                             !.nwrites = @ + 1],
                  Ev("write", s, j, TRUE, id)),
              s, j + 1, n, failAt)

\* write_slabs_to_db, the outer loop over the slab lists: line 11.
\* lists[k] is the system whose self.slabs is the k-th list.
RECURSIVE SlabsLoop(_, _, _)
SlabsLoop(st, lists, failAt) ==
    IF lists = <<>> THEN st
    ELSE LET s == Head(lists)
         IN IF slabs[s].none
            THEN Raise(st, "TypeError")         \* iterating over None
            ELSE LET st1 == SlabsInner(st, s, 1, slabs[s].n, failAt)
                 IN IF Ok(st1) THEN SlabsLoop(st1, Tail(lists), failAt) ELSE st1

write_slabs_to_db(st, lists, failAt) ==
    Exit(SlabsLoop(Enter(st, "slab_db", 0), lists, failAt), "slab_db", 0)

\* write_adsorbate_slab_configs_to_db, the inner loop over atoms_list:
\* lines 19-21.  cfg is a configuration of system s, i the candidate index.
RECURSIVE ConfigsInner(_, _, _, _, _)
ConfigsInner(st, s, cfg, i, failAt) ==
    IF i >= cfg.len THEN st
    ELSE IF st.bulk_db_id[s] = NoId \/ st.slab_db_id[s][cfg.slab] = NoId
         THEN Raise(st, "AttributeError")
    ELSE IF StoreFails(st, failAt)
         THEN Raise(Log(st, Ev("write", cfg.slab, i, FALSE, 0)), "DbError")
    ELSE LET id == NextId(st.adslab_db)
         IN ConfigsInner(
              Log([st EXCEPT !.adslab_db =
                               Append(@, [atoms |-> <<s, cfg.slab, i>>,
                                          bulk_id |-> st.bulk_db_id[s],
                                          slab_id |-> st.slab_db_id[s][cfg.slab],
                                          adslab_id |-> NoKey,
                                          relaxed |-> FALSE]),
                             !.atoms_db_id[s][cfg.slab][i] = id,
                             !.nwrites = @ + 1],
                  Ev("write", cfg.slab, i, TRUE, id)),
              s, cfg, i + 1, failAt)

\* write_adsorbate_slab_configs_to_db, the outer loop: line 18.
RECURSIVE ConfigsLoop(_, _, _, _)
ConfigsLoop(st, s, cfgs, failAt) ==
    IF cfgs = <<>> THEN st
    ELSE LET st1 == ConfigsInner(st, s, Head(cfgs), 0, failAt)
         IN IF Ok(st1) THEN ConfigsLoop(st1, s, Tail(cfgs), failAt) ELSE st1

write_adsorbate_slab_configs_to_db(st, s, cfgs, failAt) ==
    Exit(ConfigsLoop(Enter(st, "adslab_db", 0), s, cfgs, failAt), "adslab_db", 0)

\* write_adsorbate_slabs_to_db, the loop: lines 25-26.  Each adslab is a
\* relaxed structure carrying the tags relax_adsorbate_slabs put on it.
RECURSIVE AdslabsLoop(_, _, _, _)
AdslabsLoop(st, adslabs, c, failAt) ==
    IF adslabs = <<>> THEN st
    ELSE LET a == Head(adslabs)
             id == NextId(st.adslab_db)
         IN IF StoreFails(st, failAt)
            THEN Raise(Log(st, Ev("write", c, a.adslab_id, FALSE, 0)), "DbError")
            ELSE AdslabsLoop(
                   Log([st EXCEPT !.adslab_db =
                                    Append(@, [atoms |-> a.atoms,
                                               bulk_id |-> a.bulk_id,
                                               slab_id |-> a.slab_id,
                                               adslab_id |-> a.adslab_id,
                                               relaxed |-> TRUE]),
                                  !.nwrites = @ + 1],
                       Ev("write", c, a.adslab_id, TRUE, id)),
                   Tail(adslabs), c, failAt)

\* c is the configuration the batch belongs to (it only labels the events).
write_adsorbate_slabs_to_db(st, adslabs, c, failAt) ==
    Exit(AdslabsLoop(Enter(st, "adslab_db", c), adslabs, c, failAt), "adslab_db", c)

\* ------------------------------------------------------------------ Init
Init ==
    /\ made = [s \in Systems |-> FALSE]
    /\ slabs = [s \in Systems |-> NoneSlabs]
    /\ adsorbate_slab_configs = [s \in Systems |-> NoConfigs]
    /\ path = [s \in Systems |-> FALSE]
    /\ calc = [s \in Systems |-> FALSE]
    /\ bulk_db_id = [s \in Systems |-> NoId]
    /\ slab_db_id = [s \in Systems |-> [j \in 1..MaxSlabs |-> NoId]]
    /\ atoms_db_id = [s \in Systems |-> [j \in 1..MaxSlabs |-> [i \in 0..(MaxCands - 1) |-> NoId]]]
    /\ bulk_db = <<>>
    /\ slab_db = <<>>
    /\ adslab_db = <<>>
    /\ dirs = {}
    /\ held = [d \in Stores |-> 0]
    /\ last = [op |-> "none", sys |-> 0, args |-> <<>>, note |-> "", result |-> "ok",
               trace |-> <<>>, rows0 |-> 0]

\* ------------------------------------------------------ catalyst_system.py
\* bulk_to_slabs without the try/except: the library's exception escapes.
bulk_to_slabs_uncaught(raises, n) ==
    IF raises THEN [raised |-> TRUE, value |-> NoneSlabs]
    ELSE [raised |-> FALSE, value |-> SlabList(n)]

\* bulk_to_slabs, lines 47-53.  Slab.from_bulk_get_all_slabs either raises
\* or returns a list of n slabs; every exception is caught and None returned.
\* "raised" tells whether an exception leaves bulk_to_slabs.
bulk_to_slabs(raises, n) ==
    IF raises THEN [raised |-> FALSE, value |-> NoneSlabs]
    ELSE [raised |-> FALSE, value |-> SlabList(n)]

\* CatalystSystem.__init__, lines 31-38.  T is the length of the atoms_list
\* the placement gives every configuration.
Construct(s, raises, n, T) ==
    /\ ~made[s]
    /\ LET r == bulk_to_slabs(raises, n)
       IN /\ made' = [made EXCEPT ![s] = ~r.raised]
          /\ slabs' = [slabs EXCEPT ![s] = IF r.raised THEN @ ELSE r.value]
          /\ adsorbate_slab_configs' =
               [adsorbate_slab_configs EXCEPT ![s] =
                  IF ~r.raised /\ Truthy(r.value)
                  THEN [set |-> TRUE,
                        list |-> [j \in 1..r.value.n |-> [slab |-> j, len |-> T]]]
                  ELSE @]
          /\ last' = [op |-> "construct", sys |-> s, args |-> <<>>,
                      note |-> IF raises THEN "enumeration raised" ELSE "enumerated",
                      result |-> IF r.raised THEN "Exception" ELSE "ok",
                      trace |-> <<>>, rows0 |-> Len(adslab_db)]
    /\ UNCHANGED <<path, calc, bulk_db_id, slab_db_id, atoms_db_id, bulk_db, slab_db,
                   adslab_db, dirs, held>>

\* Lines 40-41.
set_calculator(s) ==
    /\ made[s]
    /\ calc' = [calc EXCEPT ![s] = TRUE]
    /\ last' = Last("set", s, <<>>, Machine)
    /\ UNCHANGED <<made, slabs, adsorbate_slab_configs, path, bulk_db_id, slab_db_id,
                   atoms_db_id, bulk_db, slab_db, adslab_db, dirs, held>>

\* Lines 43-44.
set_path(s) ==
    /\ made[s]
    /\ path' = [path EXCEPT ![s] = TRUE]
    /\ last' = Last("set", s, <<>>, Machine)
    /\ UNCHANGED <<made, slabs, adsorbate_slab_configs, calc, bulk_db_id, slab_db_id,
                   atoms_db_id, bulk_db, slab_db, adslab_db, dirs, held>>

\* calculate.calculate_energy_of_slab(atom_obj, traj_path, log_path, self.calc):
\* TRUE when it returns a relaxed structure, FALSE when it raises.  It raises
\* when the relaxation fails and, with no calculator set, for every candidate.
calculate_energy_of_slab(calcSet, fails) == calcSet /\ ~fails

\* HasDbId for objects whose class gives db_id a default: no read raises.
HasDbIdDefaulted(id) == TRUE

\* Reading obj.db_id: raises AttributeError while no writer has assigned it.
HasDbId(id) == id # NoId

\* Lines 75-78: the tags put on a relaxed structure.
Annotate(atoms, bulk_id, slab_id, i) ==
    [atoms |-> atoms, bulk_id |-> bulk_id, slab_id |-> slab_id, adslab_id |-> i]

\* RelaxStep with the results numbered by their place in the batch.
RelaxStepRenumbered(st, s, c, cfg, i, ids, fails) ==
    IF calculate_energy_of_slab(calc[s], <<c, i>> \in fails)
    THEN Log([st EXCEPT !.relaxed_adslabs =
                          Append(@, Annotate(<<s, cfg.slab, i>>, ids.bulk_id, ids.slab_id,
                                             Len(st.relaxed_adslabs)))],
             Ev("relax", c, i, TRUE, 0))
    ELSE Log(st, Ev("relax", c, i, FALSE, 0))

\* Lines 68-79: one iteration of the loop over atoms_list.  ids holds the
\* bulk_id and slab_id read at lines 62-63.
RelaxStep(st, s, c, cfg, i, ids, fails) ==
    IF calculate_energy_of_slab(calc[s], <<c, i>> \in fails)
    THEN Log([st EXCEPT !.relaxed_adslabs =
                          Append(@, Annotate(<<s, cfg.slab, i>>, ids.bulk_id, ids.slab_id,
                                             i))],
             Ev("relax", c, i, TRUE, 0))
    ELSE Log(st, Ev("relax", c, i, FALSE, 0))          \* except ...: continue

\* Line 67: the loop over enumerate(atoms_list).
RECURSIVE RelaxInner(_, _, _, _, _, _, _)
RelaxInner(st, s, c, cfg, i, ids, fails) ==
    IF i >= cfg.len THEN st
    ELSE RelaxInner(RelaxStep(st, s, c, cfg, i, ids, fails), s, c, cfg, i + 1, ids, fails)

\* Lines 83-84.
write_relaxed_adsorbate_slabs_to_db(st, relaxed_adslabs, c, failAt) ==
    write_adsorbate_slabs_to_db(st, relaxed_adslabs, c, failAt)

\* RelaxConfig with the store's exception caught and the loop going on.
RelaxConfigCatching(st, s, c, cfg, fails, failAt) ==
    LET ids == [bulk_id |-> st.bulk_db_id[s], slab_id |-> st.slab_db_id[s][cfg.slab]]
    IN IF ~HasDbId(ids.bulk_id) \/ ~HasDbId(ids.slab_id)
       THEN Raise(st, "AttributeError")
       ELSE IF ~path[s]
       THEN Raise(st, "TypeError")
       ELSE LET made1 == Log([st EXCEPT !.dirs = @ \cup {<<ids.bulk_id, ids.slab_id>>},
                                        !.relaxed_adslabs = <<>>],
                             Ev("mkdir", c, 0, TRUE, 0))
                done == RelaxInner(made1, s, c, cfg, 0, ids, fails)
            IN Raise(write_relaxed_adsorbate_slabs_to_db(done, done.relaxed_adslabs, c,
                                                         failAt), "ok")

\* RelaxConfig with relaxed_adslabs = [] hoisted out of the loop: the batch
\* keeps the results of the configurations before.
RelaxConfigKeepBatch(st, s, c, cfg, fails, failAt) ==
    LET ids == [bulk_id |-> st.bulk_db_id[s], slab_id |-> st.slab_db_id[s][cfg.slab]]
    IN IF ~HasDbId(ids.bulk_id) \/ ~HasDbId(ids.slab_id)
       THEN Raise(st, "AttributeError")
       ELSE IF ~path[s]
       THEN Raise(st, "TypeError")
       ELSE LET made1 == Log([st EXCEPT !.dirs = @ \cup {<<ids.bulk_id, ids.slab_id>>}],
                             Ev("mkdir", c, 0, TRUE, 0))
                done == RelaxInner(made1, s, c, cfg, 0, ids, fails)
            IN write_relaxed_adsorbate_slabs_to_db(done, done.relaxed_adslabs, c, failAt)

\* Lines 62-80: the body of the loop over the configurations, for the c-th
\* configuration cfg of system s.
RelaxConfig(st, s, c, cfg, fails, failAt) ==
    LET ids == [bulk_id |-> st.bulk_db_id[s], slab_id |-> st.slab_db_id[s][cfg.slab]]
    IN IF ~HasDbId(ids.bulk_id) \/ ~HasDbId(ids.slab_id)
       THEN Raise(st, "AttributeError")                \* lines 62-63
       ELSE IF ~path[s]
       THEN Raise(st, "TypeError")                     \* line 65: os.path.join(None, ...)
       ELSE LET made1 == Log([st EXCEPT !.dirs = @ \cup {<<ids.bulk_id, ids.slab_id>>},
                                        !.relaxed_adslabs = <<>>],
                             Ev("mkdir", c, 0, TRUE, 0))
                done == RelaxInner(made1, s, c, cfg, 0, ids, fails)
            IN write_relaxed_adsorbate_slabs_to_db(done, done.relaxed_adslabs, c, failAt)

\* Line 61: the loop over self.adsorbate_slab_configs; an exception ends it.
RECURSIVE RelaxOuter(_, _, _, _, _, _)
RelaxOuter(st, s, cfgs, c, fails, failAt) ==
    IF c > Len(cfgs) THEN st
    ELSE LET st1 == RelaxConfig(st, s, c, cfgs[c], fails, failAt)
         IN IF Ok(st1) THEN RelaxOuter(st1, s, cfgs, c + 1, fails, failAt) ELSE st1

relax_adsorbate_slabs(st, s, fails, failAt) ==
    IF ~adsorbate_slab_configs[s].set
    THEN Raise(st, "AttributeError")          \* the attribute was never assigned
    ELSE RelaxOuter(st, s, adsorbate_slab_configs[s].list, 1, fails, failAt)

\* The functions the module database_utils defines.
DatabaseUtils ==
    {"write_bulks_to_db", "write_slabs_to_db", "write_adsorbate_slab_configs_to_db",
     "write_adsorbate_slabs_to_db"}

\* Lines 87-89.  database_utils.write_bulk_to_db is looked up when line 88
\* runs; a name the module does not define raises AttributeError.
write_to_db(st, s, failAt) ==
    IF "write_bulk_to_db" \notin DatabaseUtils
    THEN Raise(st, "AttributeError")
    ELSE LET st1 == write_bulks_to_db(st, <<s>>, failAt)
         IN IF Ok(st1) THEN write_slabs_to_db(st1, <<s>>, failAt) ELSE st1

\* Collections a caller hands to a writer: sequences of constructed systems.
Batches == {b \in UNION {[1..k -> Systems] : k \in 1..Cardinality(Systems)} :
               \A i, j \in 1..Len(b) : i # j => b[i] # b[j]}

\* The candidates of system s: <<configuration, index>>.
Candidates(s) ==
    UNION {{<<c, i>> : i \in 0..(adsorbate_slab_configs[s].list[c].len - 1)} :
             c \in 1..Len(adsorbate_slab_configs[s].list)}

Run(op, sys, args, st) ==
    /\ WithinCapacity(st)
    /\ Install(st)
    /\ last' = Last(op, sys, args, st)
    /\ UNCHANGED <<made, slabs, adsorbate_slab_configs, path, calc>>

WriteBulks(bulks, failAt) ==
    /\ \A k \in 1..Len(bulks) : made[bulks[k]]
    /\ Run("write_bulks_to_db", 0, bulks, write_bulks_to_db(Machine, bulks, failAt))

WriteSlabs(lists, failAt) ==
    /\ \A k \in 1..Len(lists) : made[lists[k]]
    /\ Run("write_slabs_to_db", 0, lists, write_slabs_to_db(Machine, lists, failAt))

WriteConfigs(s, failAt) ==
    /\ made[s]
    /\ adsorbate_slab_configs[s].set
    /\ Run("write_adsorbate_slab_configs_to_db", s, <<>>,
           write_adsorbate_slab_configs_to_db(Machine, s, adsorbate_slab_configs[s].list,
                                              failAt))

Relax(s, fails, failAt) ==
    /\ made[s]
    /\ Run("relax_adsorbate_slabs", s, <<>>, relax_adsorbate_slabs(Machine, s, fails, failAt))

WriteToDb(s, failAt) ==
    /\ made[s]
    /\ Run("write_to_db", s, <<>>, write_to_db(Machine, s, failAt))

\* The candidates whose relaxation fails in one call: none, any single one,
\* or all of them.
FailSets(s) == {{}, Candidates(s)} \cup {{x} : x \in Candidates(s)}

\* Rows the stores can still take.
Room == MaxRows - (Len(bulk_db) + Len(slab_db) + Len(adslab_db))

\* The life of the CatalystSystem 1 and of its bulk and slabs.
Next ==
    \/ \E raises \in BOOLEAN, n \in 0..MaxSlabs, T \in 1..MaxCands : Construct(1, raises, n, T)
    \/ set_calculator(1)
    \/ set_path(1)
    \/ \E failAt \in 0..1 : WriteBulks(<<1>>, failAt)
    \/ \E failAt \in 0..(Room + 1) : WriteSlabs(<<1>>, failAt)
    \/ \E failAt \in 0..(Room + 1), fails \in FailSets(1) : Relax(1, fails, failAt)
    \/ \E failAt \in 0..(Room + 1) : WriteConfigs(1, failAt)
    \/ WriteToDb(1, 0)

Spec == Init /\ [][Next]_vars

\* The database writers on collections of the bulks and slabs of several
\* systems.
NextDb ==
    \/ \E s \in Systems, raises \in BOOLEAN, n \in 0..MaxSlabs : Construct(s, raises, n, 1)
    \/ \E bulks \in Batches, failAt \in 0..(Room + 1) : WriteBulks(bulks, failAt)
    \/ \E lists \in Batches, failAt \in 0..(Room + 1) : WriteSlabs(lists, failAt)

SpecDb == Init /\ [][NextDb]_vars

\* ---------------------------------------------------------------- claims
IsRelax == last.op = "relax_adsorbate_slabs"

\* The configurations of the system the last operation ran on.
LastConfigs == adsorbate_slab_configs[last.sys].list

\* The events of kind ev the last operation produced for configuration c.
Events(ev, c) == SelectSeq(last.trace, LAMBDA e : e.ev = ev /\ e.cfg = c)

\* The candidate indices of configuration c whose relaxation raised.
FailedIn(c) ==
    {Events("relax", c)[k].idx :
        k \in {m \in 1..Len(Events("relax", c)) : ~Events("relax", c)[m].ok}}

\* The rows the last operation wrote for configuration c, in order.
RowsOf(c) == [k \in 1..Len(Events("write", c)) |-> adslab_db[Events("write", c)[k].id]]

\* C1: when relax_adsorbate_slabs returns normally and exactly one candidate
\* k of a configuration with T candidates failed, the batch written for that
\* configuration holds T-1 relaxed rows, tagged with the bulk id, the slab id
\* and the original candidate indices {0..T-1} \ {k}.
C1_OneFailureBatch ==
    (IsRelax /\ last.result = "ok") =>
        \A c \in 1..Len(LastConfigs) :
            LET T == LastConfigs[c].len
                rows == RowsOf(c)
            IN Cardinality(FailedIn(c)) = 1 =>
                 /\ Len(rows) = T - 1
                 /\ {rows[k].adslab_id : k \in 1..Len(rows)} = (0..(T - 1)) \ FailedIn(c)
                 /\ \A k \in 1..Len(rows) :
                       rows[k] = [atoms |-> <<last.sys, LastConfigs[c].slab, rows[k].adslab_id>>,
                                  bulk_id |-> bulk_db_id[last.sys],
                                  slab_id |-> slab_db_id[last.sys][LastConfigs[c].slab],
                                  adslab_id |-> rows[k].adslab_id,
                                  relaxed |-> TRUE]

C1_Witness ==
    /\ IsRelax /\ last.result = "ok"
    /\ \E c \in 1..Len(LastConfigs) :
          /\ LastConfigs[c].len >= 2
          /\ Cardinality(FailedIn(c)) = 1
          /\ Len(RowsOf(c)) >= 1

\* The id the bulk store returned at the latest write of bulk s (NoId: none).
LatestBulkId(s) ==
    IF \E k \in 1..Len(bulk_db) : bulk_db[k].bulk = s
    THEN CHOOSE k \in 1..Len(bulk_db) :
            /\ bulk_db[k].bulk = s
            /\ \A m \in (k + 1)..Len(bulk_db) : bulk_db[m].bulk # s
    ELSE NoId

\* C2: every slab row carries as bulk_id an id the bulk store returned for
\* the slab's parent bulk; after write_slabs_to_db returned normally, each
\* slab written has as db_id the id of its row, and that row carries the id
\* returned at the latest write of the parent bulk.
C2_SlabRowsCarryBulkId ==
    /\ \A k \in 1..Len(slab_db) :
          /\ slab_db[k].bulk_id \in 1..Len(bulk_db)
          /\ bulk_db[slab_db[k].bulk_id].bulk = slab_db[k].slab[1]
    /\ (last.op = "write_slabs_to_db" /\ last.result = "ok") =>
          \A a \in 1..Len(last.args) :
             LET s == last.args[a]
             IN \A j \in 1..slabs[s].n :
                   /\ slab_db_id[s][j] \in 1..Len(slab_db)
                   /\ slab_db[slab_db_id[s][j]] = [slab |-> <<s, j>>, bulk_id |-> LatestBulkId(s)]
                   /\ \E k \in 1..Len(last.trace) :
                         last.trace[k] = Ev("write", s, j, TRUE, slab_db_id[s][j])

C2_Witness ==
    /\ last.op = "write_slabs_to_db" /\ last.result = "ok"
    /\ Len(last.args) = 2
    /\ \A a \in 1..2 : slabs[last.args[a]].n >= 1
    /\ bulk_db_id[1] # bulk_db_id[2]

\* C3: write_to_db returns normally with one bulk row and one row per slab
\* written and the returned ids assigned.
C3_WriteToDbWrites ==
    last.op = "write_to_db" =>
        /\ last.result = "ok"
        /\ bulk_db_id[last.sys] # NoId
        /\ \A j \in 1..slabs[last.sys].n : slab_db_id[last.sys][j] # NoId

\* C4: when the slab enumeration raises during construction, no exception
\* leaves the constructor, the slab list is None and no configuration list
\* is built.
C4_EnumerationFailureNonFatal ==
    (last.op = "construct" /\ last.note = "enumeration raised") =>
        /\ last.result = "ok"
        /\ made[last.sys]
        /\ slabs[last.sys] = NoneSlabs
        /\ adsorbate_slab_configs[last.sys] = NoConfigs

C4_Witness ==
    last.op = "construct" /\ last.note = "enumeration raised" /\ made[last.sys]

\* C5: relax_adsorbate_slabs on a system with a candidate, called with the
\* path unset or the calculator unset, does not return normally.
C5_MisuseSurfacesFailure ==
    (/\ IsRelax
     /\ adsorbate_slab_configs[last.sys].set
     /\ \E c \in 1..Len(LastConfigs) : LastConfigs[c].len >= 1
     /\ (~path[last.sys] \/ ~calc[last.sys]))
    => last.result # "ok"

\* The configuration whose batch the store failed on (0: the store did not fail).
FailedBatch ==
    IF \E k \in 1..Len(last.trace) : last.trace[k].ev = "write" /\ ~last.trace[k].ok
    THEN (CHOOSE e \in {last.trace[k] : k \in 1..Len(last.trace)} :
             e.ev = "write" /\ ~e.ok).cfg
    ELSE 0

\* The successful writes of the last operation, in order.
Written == SelectSeq(last.trace, LAMBDA e : e.ev = "write" /\ e.ok)

\* C6: when the store raises while the batch of configuration j is written,
\* relax_adsorbate_slabs ends with that error, nothing of a later
\* configuration is relaxed or written, and what was written before stays.
C6_StoreFailurePropagates ==
    (IsRelax /\ FailedBatch # 0) =>
        /\ last.result = "DbError"
        /\ \A k \in 1..Len(last.trace) : last.trace[k].cfg <= FailedBatch
        /\ last.trace[Len(last.trace)] = Ev("exit", FailedBatch, 0, FALSE, 0)
        /\ Len(adslab_db) = last.rows0 + Len(Written)
        /\ \A k \in 1..Len(Written) :
              /\ Written[k].id = last.rows0 + k
              /\ adslab_db[Written[k].id].relaxed
              /\ adslab_db[Written[k].id].atoms =
                    <<last.sys, LastConfigs[Written[k].cfg].slab, Written[k].idx>>

C6_Witness ==
    /\ IsRelax
    /\ FailedBatch = 1
    /\ Len(LastConfigs) >= 2
    /\ Len(Written) >= 1

\* How many events of kind ev are among the first k of the last operation.
Count(ev, k) == Cardinality({m \in 1..k : last.trace[m].ev = ev})

\* C7: no store is held once an operation has ended, whether it returned or
\* raised; acquisitions and releases alternate and are paired, and every
\* write happens while the store is held.
C7_StoreReleased ==
    /\ \A d \in Stores : held[d] = 0
    /\ Count("enter", Len(last.trace)) = Count("exit", Len(last.trace))
    /\ \A k \in 1..Len(last.trace) :
          /\ Count("enter", k) - Count("exit", k) \in {0, 1}
          /\ last.trace[k].ev = "write" => Count("enter", k) - Count("exit", k) = 1

C7_Witness ==
    /\ last.op = "write_adsorbate_slab_configs_to_db"
    /\ last.result = "DbError"
    /\ Len(Written) >= 1

\* C8: every relaxed row carries a bulk_id the bulk store returned for the
\* bulk, and a slab_id the slab store returned for the slab, that the relaxed
\* candidate descends from; the rows a relax_adsorbate_slabs call wrote carry
\* the ids the bulk and the slab hold.
C8_ForeignKeys ==
    /\ \A k \in 1..Len(adslab_db) :
          adslab_db[k].relaxed =>
             /\ adslab_db[k].bulk_id \in 1..Len(bulk_db)
             /\ bulk_db[adslab_db[k].bulk_id].bulk = adslab_db[k].atoms[1]
             /\ adslab_db[k].slab_id \in 1..Len(slab_db)
             /\ slab_db[adslab_db[k].slab_id].slab =
                   <<adslab_db[k].atoms[1], adslab_db[k].atoms[2]>>
    /\ IsRelax =>
          \A k \in 1..Len(Written) :
             /\ adslab_db[Written[k].id].bulk_id = bulk_db_id[last.sys]
             /\ adslab_db[Written[k].id].slab_id =
                   slab_db_id[last.sys][adslab_db[Written[k].id].atoms[2]]

C8_Witness ==
    /\ IsRelax
    /\ Len(Written) >= 1
    /\ Len(bulk_db) >= 2
    /\ adslab_db[Written[1].id].bulk_id = 2

\* The events of configuration c, in order.
EventsOf(c) == SelectSeq(last.trace, LAMBDA e : e.cfg = c)

\* C9: configurations are processed in list order and candidates in index
\* order; a configuration whose candidates were attempted has exactly one
\* batch write, after its last candidate and before anything of the next
\* configuration, holding exactly its successfully relaxed results; a call
\* that returns normally has processed every configuration.
C9_OrderAndBatches ==
    IsRelax =>
        /\ \A k \in 1..(Len(last.trace) - 1) : last.trace[k].cfg <= last.trace[k + 1].cfg
        /\ last.result = "ok" =>
              \A c \in 1..Len(LastConfigs) : Len(Events("enter", c)) = 1
        /\ \A c \in 1..Len(LastConfigs) :
              LET att == Events("relax", c)
                  good == SelectSeq(att, LAMBDA e : e.ok)
                  wr == Events("write", c)
                  ended == Events("exit", c)
              IN EventsOf(c) # <<>> =>
                   /\ EventsOf(c) = <<Ev("mkdir", c, 0, TRUE, 0)>> \o att
                                      \o <<Ev("enter", c, 0, TRUE, 0)>> \o wr \o ended
                   /\ Len(ended) = 1
                   /\ Len(att) = LastConfigs[c].len
                   /\ \A k \in 1..Len(att) : att[k].idx = k - 1
                   /\ Len(wr) <= Len(good)
                   /\ ended[1].ok => Len(wr) = Len(good)
                   /\ \A k \in 1..Len(wr) :
                         /\ wr[k].idx = good[k].idx
                         /\ wr[k].ok =>
                               adslab_db[wr[k].id].atoms =
                                  <<last.sys, LastConfigs[c].slab, good[k].idx>>

C9_Witness ==
    /\ IsRelax /\ last.result = "ok"
    /\ Len(LastConfigs) >= 2
    /\ Len(Events("write", 1)) >= 1
    /\ Len(Events("relax", 2)) >= 1
    /\ Len(Events("write", 2)) = 0
    /\ Len(Events("enter", 2)) = 1

\* C10: on a system whose slab enumeration failed or came back empty,
\* relax_adsorbate_slabs with path and calculator set returns normally and
\* relaxes nothing, creates no directory and writes nothing.
C10_NoSlabsRelaxIsNoOp ==
    (IsRelax /\ ~Truthy(slabs[last.sys]) /\ path[last.sys] /\ calc[last.sys]) =>
        /\ last.result = "ok"
        /\ last.trace = <<>>
====
